---------------------------- MODULE Spec2Model ----------------------------
(***************************************************************************)
(* A model of train.py: the W2V2Distil LightningModule (student-config     *)
(* resolution in __init__, the loss composer calculate_loss, the training, *)
(* validation and test hooks) and the __main__ script that builds the      *)
(* model, optionally reloads a checkpoint, builds the Trainer with its     *)
(* EarlyStopping callback and runs fit or test under the ddp strategy.     *)
(*                                                                         *)
(* Tensors are abstracted to B = T = D = 1: a layer representation is one  *)
(* number, so a per-layer mean is the element itself and the scalar mean   *)
(* is the mean over the predicted layers.  Loss values are integers in     *)
(* thousandths.  A Python exception is an "err" field other than "none".   *)
(***************************************************************************)
EXTENDS Integers, Sequences, FiniteSets, TLC

VARIABLES
    yaml_cfg,        \* YAML_CFG: [distiller, cosine_weight, lr_ok, num_epochs, gpus, checkpoint]
    teacher,         \* what load_model_and_config returns: [config, task_agnostic]
    args_test,       \* args.test
    ckpt_file,       \* the checkpoint file on disk: [has_cfg, epoch]
    pc,              \* pc[r]: position of process r in the script
    err,             \* err[r]: the exception that ended process r, or "none"
    instance,        \* instance[r]: the W2V2Distil object under construction / built
    reloading,       \* reloading[r]: __init__ is running inside load_from_checkpoint
    dumpCount,       \* number of dump_yaml executions (durable storage is shared)
    trainer,         \* rank 0's Trainer / EarlyStopping state
    wer_metric,      \* batches held by self.wer_metric (self.cer_metric is fed identically)
    evalLog,         \* bookkeeping of the running evaluation epoch
    cur_batch,       \* the batch the hooks are called with when called directly
    v_out,           \* outcome of validation_step called directly
    t_out,           \* outcome of test_step called directly
    tr_out           \* outcome of training_step called directly

vars == <<yaml_cfg, teacher, args_test, ckpt_file, pc, err, instance, reloading,
          dumpCount, trainer, wer_metric, evalLog, cur_batch, v_out, t_out, tr_out>>

(***************************************************************************)
(* Bounds of the model.                                                    *)
(***************************************************************************)
MaxGpus == 2
MaxEpochs == 17
NumTeacherLayers == 2
MaxPredLayers == 2
NumTrainBatches == 2
NumEvalBatches == 1
MaxCkptEpoch == 1

(***************************************************************************)
(* Program constants.                                                      *)
(***************************************************************************)
Patience == 15

Ranks == 0 .. (MaxGpus - 1)

RECURSIVE SumSeq(_)
SumSeq(s) == IF s = <<>> THEN 0 ELSE Head(s) + SumSeq(Tail(s))

Mean(s) == SumSeq(s) \div Len(s)

Abs(x) == IF x < 0 THEN -x ELSE x

Sign(x) == IF x < 0 THEN -1 ELSE IF x > 0 THEN 1 ELSE 0

(***************************************************************************)
(* Config Resolver: W2V2Distil.__init__ lines 53-63, update_student_config *)
(***************************************************************************)

\* The attribute names CustomStudentModelConfig exposes through
\* _get_all_attributes(): the ones update_student_config writes, and one
\* attribute shared with the teacher that it does not write.
StudentSchema ==
    {"encoder_layers", "enable_tr_layer", "type_of_tr_layer", "tr_layer_floor",
     "init_conv_layers", "init_encoder_layers", "proj_head_inter_dim",
     "proj_head_final_dim", "pred_layer_id", "teacher_task_agnostic",
     "encoder_embed_dim"}

\* CustomStudentModelConfig(): the default value of each attribute.
DefaultOf(attr) ==
    IF attr = "pred_layer_id" THEN <<>>
    ELSE IF attr = "teacher_task_agnostic" THEN FALSE
    ELSE 0

CustomStudentModelConfig == [a \in StudentSchema |-> DefaultOf(a)]

\* for k in teacher_config.keys(): if k in target_keys: setattr(student_config, k, ...)
CopyTeacherAttributes(sc, tc) ==
    [a \in DOMAIN sc |-> IF a \in DOMAIN tc THEN tc[a] ELSE sc[a]]

\* Mutant: the encoder_layers assignment is missing.
AssignmentsWithoutEncoderLayers ==
    << <<"enable_tr_layer", "enable_tr_layer">>,
       <<"type_of_tr_layer", "type_of_tr_layer">>,
       <<"tr_layer_floor", "tr_layer_index">>,
       <<"init_conv_layers", "init_conv_layers">>,
       <<"init_encoder_layers", "init_encoder_layers">>,
       <<"proj_head_inter_dim", "pred_head_inter_dim">>,
       <<"proj_head_final_dim", "pred_head_final_dim">>,
       <<"pred_layer_id", "pred_layer_id">> >>

\* update_student_config's assignments in source order: <<attribute, cfg key>>.
Assignments ==
    << <<"encoder_layers", "encoder_layers">>,
       <<"enable_tr_layer", "enable_tr_layer">>,
       <<"type_of_tr_layer", "type_of_tr_layer">>,
       <<"tr_layer_floor", "tr_layer_index">>,
       <<"init_conv_layers", "init_conv_layers">>,
       <<"init_encoder_layers", "init_encoder_layers">>,
       <<"proj_head_inter_dim", "pred_head_inter_dim">>,
       <<"proj_head_final_dim", "pred_head_final_dim">>,
       <<"pred_layer_id", "pred_layer_id">> >>

\* The assignments executed one after the other; cfg[key] of an absent key
\* raises KeyError and leaves the earlier assignments in place.
RECURSIVE ApplyAssignments(_, _, _)
ApplyAssignments(sc, cfg, todo) ==
    IF todo = <<>> THEN [raised |-> FALSE, config |-> sc]
    ELSE IF Head(todo)[2] \notin DOMAIN cfg THEN [raised |-> TRUE, config |-> sc]
    ELSE ApplyAssignments([sc EXCEPT ![Head(todo)[1]] = cfg[Head(todo)[2]]],
                          cfg, Tail(todo))

\* update_student_config(cfg): the nine assignments, then teacher_task_agnostic.
update_student_config(sc, cfg, task_agnostic) ==
    LET r == ApplyAssignments(sc, cfg, Assignments)
    IN  IF r.raised THEN r
        ELSE [raised |-> FALSE,
              config |-> [r.config EXCEPT !["teacher_task_agnostic"] = task_agnostic]]


(***************************************************************************)
(* Loss Composer: W2V2Distil.calculate_loss, lines 202-258                 *)
(***************************************************************************)

\* The values one element of a representation takes.
Vals == {-1, 1}

\* What forward() hands to the hooks for one batch: the student's projections
\* (one per predicted layer), the teacher's layer results (layer i at index
\* i + 1) and the value F.ctc_loss would give.
Batches(L) ==
    [proj : [1 .. L -> Vals], teach : [1 .. NumTeacherLayers -> Vals], ctc : {2000}]

\* teacher_results["layer_results"][i][0] for i in pred_layer_id, stacked.
teacher_hiddens(batch, pred_layer_id) ==
    [n \in 1 .. Len(pred_layer_id) |-> batch.teach[pred_layer_id[n] + 1]]

\* F.l1_loss(proj, target, reduction="none").mean((0, 2, 3)), in thousandths.
rec_layer_loss(batch, pred_layer_id) ==
    [n \in 1 .. Len(pred_layer_id) |->
        Abs(batch.proj[n] - teacher_hiddens(batch, pred_layer_id)[n]) * 1000]

\* F.cosine_similarity along a feature dimension of size one.
cosine_similarity(p, t) == Sign(p) * Sign(t)

\* -F.logsigmoid(c) for c in {-1, 0, 1}, in thousandths.
neg_logsigmoid(c) == IF c = 1 THEN 313 ELSE IF c = 0 THEN 693 ELSE 1313

\* sim_loss.mean((0, 2)) of the enabled cosine branch.
sim_layer_loss(batch, pred_layer_id) ==
    [n \in 1 .. Len(pred_layer_id) |->
        neg_logsigmoid(cosine_similarity(batch.proj[n],
                                         teacher_hiddens(batch, pred_layer_id)[n]))]

\* torch.add(a, b): elementwise; b = None raises TypeError.
torch_add(a, b) ==
    IF b.none THEN [err |-> "TypeError", val |-> <<>>]
    ELSE [err |-> "none", val |-> [n \in 1 .. Len(a) |-> a[n] + b.val[n]]]

\* losses.append(x) on a torch.Tensor: Tensor has no attribute append.
tensor_append(t, x) == [err |-> "AttributeError", val |-> t]

\* An exception leaving calculate_loss.
LossRaised(e) == [err |-> e, total |-> 0, losses |-> <<>>]

\* self: the fields of the module the hooks read.  cosine_weight is in tenths.
calculate_loss(self, batch) ==
    LET ids      == self.pred_layer_id
        rec      == rec_layer_loss(batch, ids)
        rec_loss == Mean(rec)
        enabled  == self.cosine_weight > 0
        sim_loss == IF enabled THEN Mean(sim_layer_loss(batch, ids)) ELSE 0
        sim      == IF enabled
                    THEN [none |-> FALSE, val |-> sim_layer_loss(batch, ids)]
                    ELSE [none |-> TRUE, val |-> <<>>]
        total    == rec_loss + (self.cosine_weight * sim_loss) \div 10
        added    == torch_add(rec, sim)
        appended == tensor_append(added.val, batch.ctc)
    IN  IF added.err # "none" THEN LossRaised(added.err)
        ELSE IF ~self.task_agnostic
             THEN IF appended.err # "none" THEN LossRaised(appended.err)
                  ELSE [err |-> "none", total |-> total, losses |-> appended.val]
        ELSE [err |-> "none", total |-> total, losses |-> added.val]

\* wer_metric.add_batch / cer_metric.add_batch: one more batch held.
add_batch(metric) == metric + 1

\* training_step: returns the scalar total loss; losses is what the
\* monitor_losses loop logs as loss1, loss2, ...
training_step(self, batch) ==
    LET r == calculate_loss(self, batch)
    IN  [err |-> r.err, loss |-> r.total, losses |-> r.losses]

\* validation_step: the loss, then (task-specific) add_batch, then log v_loss.
validation_step(self, batch, metric) ==
    LET r == calculate_loss(self, batch)
    IN  IF r.err # "none" THEN [err |-> r.err, v_loss |-> 0, metric |-> metric]
        ELSE [err    |-> "none",
              v_loss |-> r.total,
              metric |-> IF ~self.task_agnostic THEN add_batch(metric) ELSE metric]

\* test_step: losses is the whole (total_loss, losses) tuple and loss = sum(losses),
\* i.e. 0 + total_loss + losses, the per-layer tensor shifted by total_loss.
test_step(self, batch, metric) ==
    LET r == calculate_loss(self, batch)
    IN  IF r.err # "none" THEN [err |-> r.err, test_loss |-> <<>>, metric |-> metric]
        ELSE [err       |-> "none",
              test_loss |-> [n \in 1 .. Len(r.losses) |-> r.total + r.losses[n]],
              metric    |-> IF ~self.task_agnostic THEN add_batch(metric) ELSE metric]

\* validation_epoch_end / test_epoch_end: compute() reads the held batches and
\* empties the accumulator; task-agnostic runs do not touch it.
epoch_end(self, metric) ==
    IF ~self.task_agnostic THEN [computed |-> TRUE, metric |-> 0]
    ELSE [computed |-> FALSE, metric |-> metric]

(***************************************************************************)
(* The script: __main__ lines 349-397 and W2V2Distil.__init__ lines 28-103 *)
(***************************************************************************)

\* A W2V2Distil object before __init__ has run.
NewInstance ==
    [teacher_loaded |-> FALSE, student_config |-> CustomStudentModelConfig,
     student_built |-> FALSE, weights |-> "none"]

\* Trainer(...) with EarlyStopping(monitor='v_loss', patience=15, mode='min'):
\* nothing of the checkpoint is handed to it.  best_score -1 is "no score yet".
NewTrainer ==
    [epoch |-> 0, batch_idx |-> 0, wait_count |-> 0, best_score |-> -1,
     v_sum |-> 0, lr_evaluated |-> FALSE, stopped_early |-> FALSE]

\* Nothing has happened yet in the evaluation epoch that begins: the number of
\* step calls, add_batch calls and compute calls, and what the accumulator held
\* when the epoch began.
NoEval(held) == [steps |-> 0, adds |-> 0, computes |-> 0, held_at_start |-> held]

\* The fields of the module object of process r that the hooks read.
Self(r) ==
    [task_agnostic |-> teacher.task_agnostic,
     cosine_weight |-> yaml_cfg.cosine_weight,
     pred_layer_id |-> instance[r].student_config["pred_layer_id"]]

\* An exception ends process r.
Crash(r, e) ==
    /\ pc' = [pc EXCEPT ![r] = "crashed"]
    /\ err' = [err EXCEPT ![r] = e]

Goto(r, pos) ==
    /\ pc' = [pc EXCEPT ![r] = pos]
    /\ UNCHANGED err

\* Lines 28-50: a new object; load_model_and_config and freeze_model.
LoadTeacher(r) ==
    /\ pc[r] = "load_teacher"
    /\ instance' = [instance EXCEPT ![r] = [NewInstance EXCEPT !.teacher_loaded = TRUE]]
    /\ Goto(r, "copy_teacher_cfg")
    /\ UNCHANGED <<yaml_cfg, teacher, args_test, ckpt_file, reloading, dumpCount,
                   trainer, wer_metric, evalLog, v_out, t_out, tr_out, cur_batch>>

\* Lines 53-57: the teacher's attributes that the student schema names.
CopyTeacherConfig(r) ==
    /\ pc[r] = "copy_teacher_cfg"
    /\ instance' = [instance EXCEPT ![r].student_config =
                        CopyTeacherAttributes(CustomStudentModelConfig, teacher.config)]
    /\ Goto(r, "update_student_cfg")
    /\ UNCHANGED <<yaml_cfg, teacher, args_test, ckpt_file, reloading, dumpCount,
                   trainer, wer_metric, evalLog, v_out, t_out, tr_out, cur_batch>>

\* Mutant: the KeyError is swallowed and __init__ goes on.
SwallowKeyError(r, raised) == Goto(r, "dump_yaml")

\* What follows self.update_student_config(distiller_cfg): an exception leaves
\* __init__, a return goes on to dump_yaml.
AfterUpdate(r, raised) ==
    IF raised THEN Crash(r, "KeyError") ELSE Goto(r, "dump_yaml")

\* Lines 61-63.
UpdateStudentConfig(r) ==
    /\ pc[r] = "update_student_cfg"
    /\ LET res == update_student_config(instance[r].student_config,
                                        yaml_cfg.distiller, teacher.task_agnostic)
       IN  /\ instance' = [instance EXCEPT ![r].student_config = res.config]
           /\ AfterUpdate(r, res.raised)
    /\ UNCHANGED <<yaml_cfg, teacher, args_test, ckpt_file, reloading, dumpCount,
                   trainer, wer_metric, evalLog, v_out, t_out, tr_out, cur_batch>>

\* Line 66: dump_yaml(student_config, self.yaml_cfg).
DumpYaml(r) ==
    /\ pc[r] = "dump_yaml"
    /\ dumpCount' = dumpCount + 1
    /\ Goto(r, "build_student")
    /\ UNCHANGED <<yaml_cfg, teacher, args_test, ckpt_file, instance, reloading,
                   trainer, wer_metric, evalLog, v_out, t_out, tr_out, cur_batch>>

\* Lines 69-103: CustomStudentModel(...), the datasets; __init__ returns, either
\* to line 362 or into load_from_checkpoint, which then loads the state dict.
BuildStudent(r) ==
    /\ pc[r] = "build_student"
    /\ instance' = [instance EXCEPT ![r].student_built = TRUE, ![r].weights = "init"]
    /\ Goto(r, IF reloading[r] THEN "load_state_dict" ELSE "check_ckpt")
    /\ UNCHANGED <<yaml_cfg, teacher, args_test, ckpt_file, reloading, dumpCount,
                   trainer, wer_metric, evalLog, v_out, t_out, tr_out, cur_batch>>

\* Lines 362-363: model.load_from_checkpoint(path) builds a new W2V2Distil from
\* the hyper-parameters the file holds; without a stored cfg the constructor
\* call lacks its argument (the module never calls save_hyperparameters, so a
\* file written by this script's ModelCheckpoint stores none).
LoadFromCheckpoint(r) ==
    /\ pc[r] = "check_ckpt"
    /\ IF ~yaml_cfg.checkpoint
       THEN Goto(r, "make_trainer") /\ UNCHANGED reloading
       ELSE IF ~ckpt_file.has_cfg
            THEN Crash(r, "TypeError: cfg") /\ UNCHANGED reloading
            ELSE Goto(r, "load_teacher") /\ reloading' = [reloading EXCEPT ![r] = TRUE]
    /\ UNCHANGED <<yaml_cfg, teacher, args_test, ckpt_file, instance, dumpCount,
                   trainer, wer_metric, evalLog, v_out, t_out, tr_out, cur_batch>>

\* load_from_checkpoint, after the constructor: the module's weights.
LoadStateDict(r) ==
    /\ pc[r] = "load_state_dict"
    /\ instance' = [instance EXCEPT ![r].weights = "ckpt"]
    /\ reloading' = [reloading EXCEPT ![r] = FALSE]
    /\ Goto(r, "make_trainer")
    /\ UNCHANGED <<yaml_cfg, teacher, args_test, ckpt_file, dumpCount,
                   trainer, wer_metric, evalLog, v_out, t_out, tr_out, cur_batch>>

\* Lines 365-392: the callbacks and the Trainer.
MakeTrainer(r) ==
    /\ pc[r] = "make_trainer"
    /\ trainer' = IF r = 0 THEN NewTrainer ELSE trainer
    /\ Goto(r, "run")
    /\ UNCHANGED <<yaml_cfg, teacher, args_test, ckpt_file, instance, reloading,
                   dumpCount, wer_metric, evalLog, v_out, t_out, tr_out, cur_batch>>

\* Lines 394-397 under strategy="ddp": rank 0 starts the script once more for
\* every further device; a replica that arrives here joins the group.
RunTrainer(r) ==
    /\ pc[r] = "run"
    /\ pc' = IF r = 0
             THEN [q \in Ranks |->
                     IF q = 0 THEN "ddp_wait"
                     ELSE IF q < yaml_cfg.gpus THEN "load_teacher" ELSE pc[q]]
             ELSE [pc EXCEPT ![r] = "joined"]
    /\ UNCHANGED <<yaml_cfg, teacher, args_test, ckpt_file, err, instance, reloading,
                   dumpCount, trainer, wer_metric, evalLog, v_out, t_out, tr_out, cur_batch>>

\* The process group is complete: trainer.test(model) or trainer.fit(model) begins.
DdpBarrier ==
    /\ pc[0] = "ddp_wait"
    /\ \A q \in Ranks : q >= 1 /\ q < yaml_cfg.gpus => pc[q] = "joined"
    /\ Goto(0, IF args_test THEN "test_batch" ELSE "configure_optimizers")
    /\ evalLog' = NoEval(wer_metric)
    /\ UNCHANGED <<yaml_cfg, teacher, args_test, ckpt_file, instance, reloading,
                   dumpCount, trainer, wer_metric, v_out, t_out, tr_out, cur_batch>>

(***************************************************************************)
(* trainer.fit / trainer.test driving the hooks of rank 0                  *)
(***************************************************************************)

\* Mutant: the expression is evaluated as the script starts.
LearningRateEvaluatedAtStart == "load_teacher"

\* Where eval(self.yaml_cfg['train']['learning_rate']) runs: the first line of
\* configure_optimizers, which fit calls on the finished module.
LearningRateEvaluatedAt == "configure_optimizers"

\* Line 261.
ConfigureOptimizers ==
    /\ pc[0] = LearningRateEvaluatedAt
    /\ trainer' = [trainer EXCEPT !.lr_evaluated = TRUE]
    /\ IF yaml_cfg.lr_ok THEN Goto(0, "train_batch") ELSE Crash(0, "EvalError")
    /\ UNCHANGED <<yaml_cfg, teacher, args_test, ckpt_file, instance, reloading,
                   dumpCount, wer_metric, evalLog, v_out, t_out, tr_out, cur_batch>>

\* One training batch: training_step; after the epoch's last batch the
\* validation epoch begins.
TrainBatch ==
    /\ pc[0] = "train_batch"
    /\ \E b \in Batches(Len(Self(0).pred_layer_id)) :
         LET out  == training_step(Self(0), b)
             last == trainer.batch_idx + 1 = NumTrainBatches
         IN  IF out.err # "none"
             THEN Crash(0, out.err) /\ UNCHANGED <<trainer, evalLog, cur_batch>>
             ELSE /\ trainer' = [trainer EXCEPT !.batch_idx = IF last THEN 0 ELSE @ + 1]
                  /\ evalLog' = IF last THEN NoEval(wer_metric) ELSE evalLog
                  /\ Goto(0, IF last THEN "val_batch" ELSE "train_batch")
    /\ UNCHANGED <<yaml_cfg, teacher, args_test, ckpt_file, instance, reloading,
                   dumpCount, wer_metric, v_out, t_out, tr_out, cur_batch>>

\* One validation batch: validation_step; v_loss is logged with on_epoch=True.
ValBatch ==
    /\ pc[0] = "val_batch"
    /\ \E b \in Batches(Len(Self(0).pred_layer_id)) :
         LET out  == validation_step(Self(0), b, wer_metric)
             last == trainer.batch_idx + 1 = NumEvalBatches
         IN  /\ wer_metric' = out.metric
             /\ evalLog' = [evalLog EXCEPT !.steps = @ + 1,
                                           !.adds = @ + (out.metric - wer_metric)]
             /\ IF out.err # "none"
                THEN Crash(0, out.err) /\ UNCHANGED trainer
                ELSE /\ trainer' = [trainer EXCEPT
                                       !.v_sum = @ + out.v_loss,
                                       !.batch_idx = IF last THEN 0 ELSE @ + 1]
                     /\ Goto(0, IF last THEN "val_epoch_end" ELSE "val_batch")
    /\ UNCHANGED <<yaml_cfg, teacher, args_test, ckpt_file, instance, reloading,
                   dumpCount, v_out, t_out, tr_out, cur_batch>>

\* validation_epoch_end, lines 166-172.
ValEpochEnd ==
    /\ pc[0] = "val_epoch_end"
    /\ LET e == epoch_end(Self(0), wer_metric)
       IN  /\ wer_metric' = e.metric
           /\ evalLog' = [evalLog EXCEPT !.computes = @ + (IF e.computed THEN 1 ELSE 0)]
    /\ Goto(0, "callbacks")
    /\ UNCHANGED <<yaml_cfg, teacher, args_test, ckpt_file, instance, reloading,
                   dumpCount, trainer, v_out, t_out, tr_out, cur_batch>>

\* The epoch boundary: EarlyStopping(monitor='v_loss', patience=15, mode='min')
\* reads the epoch's v_loss, then max_epochs=num_epochs is checked.
EpochCallbacks ==
    /\ pc[0] = "callbacks"
    /\ LET current  == trainer.v_sum \div NumEvalBatches
           improved == trainer.best_score = -1 \/ current < trainer.best_score
           wait     == IF improved THEN 0 ELSE trainer.wait_count + 1
           stop     == wait >= Patience
           over     == trainer.epoch + 1 >= yaml_cfg.num_epochs
       IN  /\ trainer' = [trainer EXCEPT
                             !.best_score = IF improved THEN current ELSE @,
                             !.wait_count = wait,
                             !.stopped_early = stop,
                             !.epoch = @ + 1,
                             !.v_sum = 0]
           /\ Goto(0, IF stop \/ over THEN "done" ELSE "train_batch")
    /\ UNCHANGED <<yaml_cfg, teacher, args_test, ckpt_file, instance, reloading,
                   dumpCount, wer_metric, evalLog, v_out, t_out, tr_out, cur_batch>>

\* One test batch: test_step.
TestBatch ==
    /\ pc[0] = "test_batch"
    /\ \E b \in Batches(Len(Self(0).pred_layer_id)) :
         LET out  == test_step(Self(0), b, wer_metric)
             last == trainer.batch_idx + 1 = NumEvalBatches
         IN  /\ wer_metric' = out.metric
             /\ evalLog' = [evalLog EXCEPT !.steps = @ + 1,
                                           !.adds = @ + (out.metric - wer_metric)]
             /\ IF out.err # "none"
                THEN Crash(0, out.err) /\ UNCHANGED trainer
                ELSE /\ trainer' = [trainer EXCEPT
                                       !.batch_idx = IF last THEN 0 ELSE @ + 1]
                     /\ Goto(0, IF last THEN "test_epoch_end" ELSE "test_batch")
    /\ UNCHANGED <<yaml_cfg, teacher, args_test, ckpt_file, instance, reloading,
                   dumpCount, v_out, t_out, tr_out, cur_batch>>

\* test_epoch_end, lines 194-200.
TestEpochEnd ==
    /\ pc[0] = "test_epoch_end"
    /\ LET e == epoch_end(Self(0), wer_metric)
       IN  /\ wer_metric' = e.metric
           /\ evalLog' = [evalLog EXCEPT !.computes = @ + (IF e.computed THEN 1 ELSE 0)]
    /\ Goto(0, "done")
    /\ UNCHANGED <<yaml_cfg, teacher, args_test, ckpt_file, instance, reloading,
                   dumpCount, trainer, v_out, t_out, tr_out, cur_batch>>

(***************************************************************************)
(* The hooks called directly on a built module, one batch at a time        *)
(***************************************************************************)

CallTrainingStep ==
    /\ pc[0] = "hooks"
    /\ tr_out' = [called |-> TRUE, out |-> training_step(Self(0), cur_batch)]
    /\ UNCHANGED <<yaml_cfg, teacher, args_test, ckpt_file, pc, err, instance,
                   reloading, dumpCount, trainer, wer_metric, evalLog, v_out, t_out, cur_batch>>

CallValidationStep ==
    /\ pc[0] = "hooks"
    /\ LET out == validation_step(Self(0), cur_batch, wer_metric)
       IN  /\ v_out' = [called |-> TRUE, out |-> out]
           /\ wer_metric' = out.metric
    /\ UNCHANGED <<yaml_cfg, teacher, args_test, ckpt_file, pc, err, instance,
                   reloading, dumpCount, trainer, evalLog, t_out, tr_out, cur_batch>>

CallTestStep ==
    /\ pc[0] = "hooks"
    /\ LET out == test_step(Self(0), cur_batch, wer_metric)
       IN  /\ t_out' = [called |-> TRUE, out |-> out]
           /\ wer_metric' = out.metric
    /\ UNCHANGED <<yaml_cfg, teacher, args_test, ckpt_file, pc, err, instance,
                   reloading, dumpCount, trainer, evalLog, v_out, tr_out, cur_batch>>

(***************************************************************************)
(* Inputs and specifications                                               *)
(***************************************************************************)

\* The keys the distiller section of the yaml file is read for (lines 297-309).
DistillerKeys ==
    {"encoder_layers", "enable_tr_layer", "type_of_tr_layer", "tr_layer_index",
     "init_conv_layers", "init_encoder_layers", "pred_head_inter_dim",
     "pred_head_final_dim", "pred_layer_id"}

\* A key one may also write in the distiller section, with the name of a
\* student attribute that update_student_config never refers to.
ExtraKeys == {"encoder_embed_dim"}

\* Keys a teacher config may carry; quantize_targets is no student attribute.
TeacherKeys == {"encoder_layers", "encoder_embed_dim", "quantize_targets"}

TeacherVals == {1, 2}
OverrideVals == {2, 3}

\* pred_layer_id: a non-empty list of teacher layer indices.
PredLayerIds(maxLen) ==
    UNION {[1 .. L -> 0 .. (NumTeacherLayers - 1)] : L \in 1 .. maxLen}

DistillerCfg(dom, ov, ids) == [k \in dom |-> IF k = "pred_layer_id" THEN ids ELSE ov]

\* Distiller sections: complete, or lacking one key; with or without the extra key.
AllDistillers ==
    {DistillerCfg((DistillerKeys \ missing) \cup extra, ov, ids) :
        missing \in {{}} \cup {{k} : k \in DistillerKeys},
        extra \in SUBSET ExtraKeys,
        ov \in OverrideVals,
        ids \in PredLayerIds(MaxPredLayers)}

CompleteDistillers ==
    {DistillerCfg(DistillerKeys, ov, ids) :
        ov \in OverrideVals, ids \in PredLayerIds(MaxPredLayers)}

AllTeacherConfigs ==
    UNION {[dom -> TeacherVals] : dom \in SUBSET TeacherKeys}

\* No batch is at hand: the trainer draws the batches itself.
NoBatch == [proj |-> <<>>, teach |-> <<>>, ctc |-> 0]

\* What every initial state shares: process 0 is about to construct the model.
InitProcesses ==
    /\ pc = [r \in Ranks |-> IF r = 0 THEN "load_teacher" ELSE "unlaunched"]
    /\ err = [r \in Ranks |-> "none"]
    /\ instance = [r \in Ranks |-> NewInstance]
    /\ reloading = [r \in Ranks |-> FALSE]
    /\ dumpCount = 0
    /\ trainer = NewTrainer
    /\ wer_metric = 0
    /\ evalLog = NoEval(0)
    /\ cur_batch = NoBatch
    /\ v_out = [called |-> FALSE]
    /\ t_out = [called |-> FALSE]
    /\ tr_out = [called |-> FALSE]

\* A whole run of the script.
Init ==
    /\ yaml_cfg \in [distiller : {DistillerCfg(DistillerKeys, 3, <<0>>)},
                     cosine_weight : {0, 5},
                     lr_ok : BOOLEAN,
                     num_epochs : {1, MaxEpochs},
                     gpus : 1 .. MaxGpus,
                     checkpoint : BOOLEAN]
    /\ teacher \in [config : {[k \in TeacherKeys |-> 1]}, task_agnostic : BOOLEAN]
    /\ args_test \in BOOLEAN
    /\ ckpt_file \in [has_cfg : BOOLEAN, epoch : 1 .. MaxCkptEpoch]
    /\ yaml_cfg.checkpoint \/ ckpt_file = [has_cfg |-> FALSE, epoch |-> 1]
    /\ InitProcesses

Next ==
    \/ \E r \in Ranks :
         \/ LoadTeacher(r)
         \/ CopyTeacherConfig(r)
         \/ UpdateStudentConfig(r)
         \/ DumpYaml(r)
         \/ BuildStudent(r)
         \/ LoadFromCheckpoint(r)
         \/ LoadStateDict(r)
         \/ MakeTrainer(r)
         \/ RunTrainer(r)
    \/ DdpBarrier
    \/ ConfigureOptimizers
    \/ TrainBatch
    \/ ValBatch
    \/ ValEpochEnd
    \/ EpochCallbacks
    \/ TestBatch
    \/ TestEpochEnd

Spec == Init /\ [][Next]_vars

\* W2V2Distil(cfg) alone, over the teacher configs and distiller sections.
InitConfig ==
    /\ yaml_cfg \in [distiller : AllDistillers,
                     cosine_weight : {5},
                     lr_ok : {TRUE},
                     num_epochs : {1},
                     gpus : {1},
                     checkpoint : {FALSE}]
    /\ teacher \in [config : AllTeacherConfigs, task_agnostic : BOOLEAN]
    /\ args_test = FALSE
    /\ ckpt_file = [has_cfg |-> FALSE, epoch |-> 1]
    /\ InitProcesses

NextConfig ==
    \/ LoadTeacher(0)
    \/ CopyTeacherConfig(0)
    \/ UpdateStudentConfig(0)
    \/ DumpYaml(0)
    \/ BuildStudent(0)

SpecConfig == InitConfig /\ [][NextConfig]_vars

\* The module as W2V2Distil.__init__ leaves it.
BuiltInstance ==
    [teacher_loaded |-> TRUE,
     student_config |->
        update_student_config(
            CopyTeacherAttributes(CustomStudentModelConfig, teacher.config),
            yaml_cfg.distiller, teacher.task_agnostic).config,
     student_built |-> TRUE,
     weights |-> "init"]

\* The hooks of a built module, over the loss configurations and the batches.
InitLoss ==
    /\ yaml_cfg \in [distiller : CompleteDistillers,
                     cosine_weight : {0, 5, 10},
                     lr_ok : {TRUE},
                     num_epochs : {1},
                     gpus : {1},
                     checkpoint : {FALSE}]
    /\ yaml_cfg.distiller["encoder_layers"] = 2
    /\ teacher \in [config : {[k \in TeacherKeys |-> 1]}, task_agnostic : BOOLEAN]
    /\ args_test = FALSE
    /\ ckpt_file = [has_cfg |-> FALSE, epoch |-> 1]
    /\ pc = [r \in Ranks |-> IF r = 0 THEN "hooks" ELSE "unlaunched"]
    /\ err = [r \in Ranks |-> "none"]
    /\ instance = [r \in Ranks |-> IF r = 0 THEN BuiltInstance ELSE NewInstance]
    /\ reloading = [r \in Ranks |-> FALSE]
    /\ dumpCount = 1
    /\ trainer = NewTrainer
    /\ wer_metric = 0
    /\ evalLog = NoEval(0)
    /\ cur_batch \in Batches(Len(yaml_cfg.distiller["pred_layer_id"]))
    /\ v_out = [called |-> FALSE]
    /\ t_out = [called |-> FALSE]
    /\ tr_out = [called |-> FALSE]

NextLoss ==
    \/ CallTrainingStep
    \/ CallValidationStep
    \/ CallTestStep

SpecLoss == InitLoss /\ [][NextLoss]_vars

(***************************************************************************)
(* The claims                                                              *)
(***************************************************************************)

\* The number of predicted layers of the built module.
L0 == Len(Self(0).pred_layer_id)

\* C1: with a cosine weight > 0, calculate_loss (here through training_step)
\* returns, and losses has L entries on a task-agnostic teacher and L + 1 (the
\* L layer terms, then the CTC term) on a task-specific one.
C1_LossesLength ==
    (tr_out.called /\ yaml_cfg.cosine_weight > 0) =>
        /\ tr_out.out.err = "none"
        /\ Len(tr_out.out.losses) = IF teacher.task_agnostic THEN L0 ELSE L0 + 1

\* C2: with a cosine weight of 0, calculate_loss returns without an error and
\* total_loss is exactly the regression scalar rec_loss.
C2_ZeroWeightTotal ==
    (tr_out.called /\ yaml_cfg.cosine_weight = 0) =>
        /\ tr_out.out.err = "none"
        /\ tr_out.out.loss = Mean(rec_layer_loss(cur_batch, Self(0).pred_layer_id))

\* The positions of __init__ after update_student_config has returned.
Resolved(r) == pc[r] \in {"dump_yaml", "build_student", "check_ckpt"}

\* C3 as stated: once the teacher attributes are copied and update_student_config
\* is applied, every attribute present in both the teacher config and the
\* override mapping has the override value.
C3_OverrideWinsForEverySharedKey ==
    Resolved(0) =>
        \A k \in (DOMAIN teacher.config) \cap (DOMAIN yaml_cfg.distiller) \cap StudentSchema :
            instance[0].student_config[k] = yaml_cfg.distiller[k]

\* The attribute / key pairs of lines 297-309.
AssignedPairs ==
    {<<"encoder_layers", "encoder_layers">>, <<"enable_tr_layer", "enable_tr_layer">>,
     <<"type_of_tr_layer", "type_of_tr_layer">>, <<"tr_layer_floor", "tr_layer_index">>,
     <<"init_conv_layers", "init_conv_layers">>,
     <<"init_encoder_layers", "init_encoder_layers">>,
     <<"proj_head_inter_dim", "pred_head_inter_dim">>,
     <<"proj_head_final_dim", "pred_head_final_dim">>,
     <<"pred_layer_id", "pred_layer_id">>}

\* C3 amended: every attribute update_student_config assigns has the value the
\* override mapping gives under the key the assignment reads, whatever the
\* teacher config says; every other schema attribute the teacher config names
\* keeps the teacher's value, also when the mapping has a key of that name.
C3_OverrideWinsForAssignedAttributes ==
    Resolved(0) =>
        /\ \A p \in AssignedPairs : p[2] \in DOMAIN yaml_cfg.distiller
        /\ \A p \in AssignedPairs :
              instance[0].student_config[p[1]] = yaml_cfg.distiller[p[2]]
        /\ instance[0].student_config["teacher_task_agnostic"] = teacher.task_agnostic
        /\ \A a \in StudentSchema \ ({p[1] : p \in AssignedPairs} \cup {"teacher_task_agnostic"}) :
              instance[0].student_config[a] =
                  IF a \in DOMAIN teacher.config THEN teacher.config[a] ELSE DefaultOf(a)

\* C3 witness: resolved, with encoder_layers given differently by teacher and mapping.
C3_Witness ==
    /\ Resolved(0)
    /\ "encoder_layers" \in DOMAIN teacher.config
    /\ teacher.config["encoder_layers"] # yaml_cfg.distiller["encoder_layers"]

\* The distiller section lacks a key that update_student_config reads.
KeyOmitted == DistillerKeys \ (DOMAIN yaml_cfg.distiller) # {}

\* C4: when the override mapping omits a required key, initialization never gets
\* past update_student_config: the config is not persisted, the student model is
\* not constructed, and the process ends with the KeyError.
C4_FailFastOnMissingKey ==
    KeyOmitted =>
        /\ pc[0] \in {"load_teacher", "copy_teacher_cfg", "update_student_cfg", "crashed"}
        /\ dumpCount = 0
        /\ ~instance[0].student_built
        /\ (pc[0] = "crashed" => err[0] = "KeyError")

\* C4 witness: a key is omitted and __init__ has failed.
C4_Witness == KeyOmitted /\ pc[0] = "crashed" /\ err[0] = "KeyError"

\* C5 as stated: the learning rate is evaluated before any model weights are
\* constructed, i.e. whenever a teacher is loaded or a student built, the
\* expression has been evaluated.
C5_LearningRateEvaluatedFirst ==
    \A r \in Ranks :
        (instance[r].teacher_loaded \/ instance[r].student_built) => trainer.lr_evaluated

\* C5 amended: the learning rate is evaluated, and a failing expression reported,
\* only after the teacher is loaded and the student constructed.
C5_LearningRateEvaluatedAfterConstruction ==
    (trainer.lr_evaluated \/ err[0] = "EvalError") =>
        (instance[0].teacher_loaded /\ instance[0].student_built)

\* C5 witness: the expression failed to evaluate, with both models built.
C5_Witness ==
    /\ err[0] = "EvalError"
    /\ instance[0].teacher_loaded
    /\ instance[0].student_built

\* trainer.fit has passed configure_optimizers: the epochs are running or over.
FitBegun ==
    /\ ~args_test
    /\ trainer.lr_evaluated
    /\ yaml_cfg.lr_ok

\* C6: a fit ends before max_epochs only when v_loss has not improved for 15
\* consecutive validation epochs, and then it does end; the check is taken at
\* epoch boundaries only, so a fit never ends inside a training epoch.
C6_EarlyStopOnlyAfterPatience ==
    FitBegun =>
        /\ (pc[0] \in {"done", "crashed"} /\ trainer.epoch < yaml_cfg.num_epochs)
              => trainer.wait_count >= Patience
        /\ trainer.wait_count >= Patience => pc[0] = "done"
        /\ pc[0] \in {"done", "crashed"} => trainer.batch_idx = 0

\* C7: with a checkpoint configured, loading it succeeds and the fit starts from
\* the checkpoint's weights and from the checkpoint's epoch.
C7_ResumeFromCheckpoint ==
    yaml_cfg.checkpoint =>
        /\ err[0] # "TypeError: cfg"
        /\ pc[0] = "configure_optimizers" =>
              /\ instance[0].weights = "ckpt"
              /\ trainer.epoch = ckpt_file.epoch

\* C8: over all replica processes and the checkpoint reload, dump_yaml runs once:
\* never twice, and once by the time the trainer of rank 0 runs.
C8_DumpedExactlyOnce ==
    /\ dumpCount <= 1
    /\ (pc[0] \in {"configure_optimizers", "train_batch", "test_batch", "done"}
            => dumpCount = 1)

\* C9: on the same batch and module, where validation_step returns v_loss,
\* test_step returns too and its test_loss is that one scalar.
C9_TestMirrorsValidation ==
    (v_out.called /\ t_out.called /\ v_out.out.err = "none") =>
        /\ t_out.out.err = "none"
        /\ t_out.out.test_loss = <<v_out.out.v_loss>>

\* C10: on a task-specific teacher the accumulators are empty as an evaluation
\* epoch begins, get one add_batch per evaluation step and one compute at the
\* epoch's end; on a task-agnostic teacher they are never written or read.
C10_MetricScoping ==
    IF teacher.task_agnostic
    THEN wer_metric = 0 /\ evalLog.adds = 0 /\ evalLog.computes = 0
    ELSE /\ evalLog.held_at_start = 0
         /\ evalLog.adds = evalLog.steps
         /\ (pc[0] = "callbacks" => evalLog.computes = 1)

=============================================================================
